---- MODULE Spec2Model ----
(***************************************************************************)
(* A model of the PDF question-answering pipeline: SmartPDFLoader          *)
(* (src/src/smart_pdf_loader.py), Ingestor (src/src/ingestion.py), PdfChat *)
(* (src/src/pdf_chat.py) and the HTTP front end (src/rag_server.py).       *)
(*                                                                         *)
(* Texts are sequences of one-character strings, so that trimming,         *)
(* splitting, number formatting and the page marker are computed and not   *)
(* assumed.                                                                *)
(***************************************************************************)
EXTENDS Integers, Sequences, FiniteSets, TLC

\* ------------------------------------------------------------------ bounds
MaxPages == 3
MaxRuns == 2
MaxWorkers == 2

\* ------------------------------------------------------------------- texts
NL == "\n"
Whitespace == {" ", NL}

RECURSIVE LStrip(_)
LStrip(s) ==
    IF s = <<>> THEN <<>>
    ELSE IF Head(s) \in Whitespace THEN LStrip(Tail(s)) ELSE s

RECURSIVE RStrip(_)
RStrip(s) ==
    IF s = <<>> THEN <<>>
    ELSE IF s[Len(s)] \in Whitespace THEN RStrip(SubSeq(s, 1, Len(s) - 1)) ELSE s

\* str.strip()
Strip(s) == RStrip(LStrip(s))

RECURSIVE Concat(_)
Concat(ss) == IF ss = <<>> THEN <<>> ELSE Head(ss) \o Concat(Tail(ss))

RECURSIVE JoinWith(_, _)
JoinWith(ss, sep) ==
    IF ss = <<>> THEN <<>>
    ELSE IF Len(ss) = 1 THEN ss[1]
    ELSE ss[1] \o sep \o JoinWith(Tail(ss), sep)

DigitChars == <<"0", "1", "2", "3", "4", "5", "6", "7", "8", "9">>

\* str(n) for a non-negative integer, as the f-string formats it
RECURSIVE Digits(_)
Digits(n) ==
    IF n < 10 THEN <<DigitChars[n + 1]>>
    ELSE Digits(n \div 10) \o <<DigitChars[(n % 10) + 1]>>

\* -------------------------------------------------- RecursiveCharacterTextSplitter
\* The splitter Ingestor.ingest_file builds with its defaults: separators
\* ["\n\n", "\n", " ", ""], keep_separator=True, strip_whitespace=True,
\* length_function=len.
Separators == << <<NL, NL>>, <<NL>>, <<" ">>, <<>> >>

MatchAt(text, sep, i) ==
    /\ i >= 1
    /\ i + Len(sep) - 1 <= Len(text)
    /\ SubSeq(text, i, i + Len(sep) - 1) = sep

Contains(text, sep) == \E i \in 1..Len(text) : MatchAt(text, sep, i)

\* the first match of sep at or after from, 0 when there is none
NextMatch(text, sep, from) ==
    IF \E i \in from..Len(text) : MatchAt(text, sep, i)
    THEN CHOOSE i \in from..Len(text) :
            /\ MatchAt(text, sep, i)
            /\ \A j \in from..(i - 1) : ~MatchAt(text, sep, j)
    ELSE 0

\* re.split with the separator kept at the start of the piece that follows it
RECURSIVE SplitFrom(_, _, _, _)
SplitFrom(text, sep, start, from) ==
    LET m == NextMatch(text, sep, from)
    IN  IF m = 0 THEN <<SubSeq(text, start, Len(text))>>
        ELSE <<SubSeq(text, start, m - 1)>> \o SplitFrom(text, sep, m, m + Len(sep))

RECURSIVE DropEmpty(_)
DropEmpty(ss) ==
    IF ss = <<>> THEN <<>>
    ELSE IF Head(ss) = <<>> THEN DropEmpty(Tail(ss))
    ELSE <<Head(ss)>> \o DropEmpty(Tail(ss))

\* _split_text_with_regex(text, separator, keep_separator=True)
SplitWithSeparator(text, sep) ==
    IF sep = <<>> THEN [i \in 1..Len(text) |-> <<text[i]>>]
    ELSE DropEmpty(SplitFrom(text, sep, 1, 1))

\* _join_docs with the empty merge separator: joined, trimmed, None when empty
JoinDocs(cur) ==
    LET t == Strip(Concat(cur)) IN IF t = <<>> THEN <<>> ELSE <<t>>

\* the while loop of _merge_splits: drop leading pieces until the window fits
RECURSIVE PopFront(_, _, _, _, _)
PopFront(cur, total, len, cs, co) ==
    IF total > co \/ (total + len > cs /\ total > 0)
    THEN PopFront(Tail(cur), total - Len(Head(cur)), len, cs, co)
    ELSE [cur |-> cur, total |-> total]

\* _merge_splits(splits, "") from piece i on
RECURSIVE MergeFrom(_, _, _, _, _, _)
MergeFrom(splits, i, cur, total, cs, co) ==
    IF i > Len(splits) THEN JoinDocs(cur)
    ELSE LET d == splits[i]
             len == Len(d)
         IN  IF total + len > cs /\ Len(cur) > 0
             THEN LET p == PopFront(cur, total, len, cs, co)
                  IN  JoinDocs(cur) \o
                      MergeFrom(splits, i + 1, Append(p.cur, d), p.total + len, cs, co)
             ELSE MergeFrom(splits, i + 1, Append(cur, d), total + len, cs, co)

\* a merge that joins all the pieces whatever the chunk size
MergeSplitsUnbounded(splits, cs, co) == JoinDocs(splits)

MergeSplits(splits, cs, co) == MergeFrom(splits, 1, <<>>, 0, cs, co)

\* the index of the separator _split_text picks: the first one that occurs in
\* the text, the empty separator at the latest
PickSeparator(text, seps) ==
    CHOOSE i \in 1..Len(seps) :
        /\ seps[i] = <<>> \/ Contains(text, seps[i])
        /\ \A j \in 1..(i - 1) : seps[j] # <<>> /\ ~Contains(text, seps[j])

\* RecursiveCharacterTextSplitter._split_text
RECURSIVE SplitText(_, _, _, _)
RECURSIVE SplitPieces(_, _, _, _, _, _)
SplitPieces(splits, i, good, rest, cs, co) ==
    IF i > Len(splits)
    THEN IF good = <<>> THEN <<>> ELSE MergeSplits(good, cs, co)
    ELSE LET s == splits[i]
         IN  IF Len(s) < cs
             THEN SplitPieces(splits, i + 1, Append(good, s), rest, cs, co)
             ELSE (IF good = <<>> THEN <<>> ELSE MergeSplits(good, cs, co))
                  \o (IF rest = <<>> THEN <<s>> ELSE SplitText(s, rest, cs, co))
                  \o SplitPieces(splits, i + 1, <<>>, rest, cs, co)

SplitText(text, seps, cs, co) ==
    LET k == PickSeparator(text, seps)
        sep == seps[k]
        rest == IF sep = <<>> THEN <<>> ELSE SubSeq(seps, k + 1, Len(seps))
    IN  SplitPieces(SplitWithSeparator(text, sep), 1, <<>>, rest, cs, co)


\* ------------------------------------------------------------------- inputs
\* A PDF page as the libraries see it: the text PyMuPDF's get_text() returns,
\* the number of images convert_from_path returns for that page, and what
\* pytesseract.image_to_string does with the image (its text, or an error).
Page(native, images, ocr, ocr_raises) ==
    [native |-> native, images |-> images, ocr |-> ocr, ocr_raises |-> ocr_raises]

TextPage    == Page(<<"a", "b", NL>>, 1, <<>>, FALSE)
LongPage    == Page(<<"a", "b", "c", " ", "d", "e">>, 1, <<>>, FALSE)
ScanPage    == Page(<<" ">>, 1, <<" ", "c", NL>>, FALSE)
BlankScan   == Page(<<>>, 1, <<" ">>, FALSE)
BadScan     == Page(<<>>, 1, <<>>, TRUE)
NoImagePage == Page(<<NL>>, 0, <<>>, FALSE)

PageKinds == {TextPage, LongPage, ScanPage, BlankScan, BadScan, NoImagePage}

PageSeqs == UNION { [1..n -> PageKinds] : n \in 0..MaxPages }

PdfName == [stem |-> "doc", suffix |-> ".pdf"]

\* the files file_name can name: a PDF, a missing PDF, and files whose
\* extension is not ".pdf" (Path.suffix compares case-sensitively)
Files ==
    { [name |-> PdfName, exists |-> TRUE, pages |-> ps] : ps \in PageSeqs }
    \cup { [name |-> PdfName, exists |-> FALSE, pages |-> <<>>] }
    \cup { [name |-> [stem |-> "doc", suffix |-> sfx], exists |-> FALSE, pages |-> <<>>] :
             sfx \in {".txt", ".PDF", ""} }
    \cup { [name |-> [stem |-> "doc", suffix |-> sfx], exists |-> TRUE, pages |-> ps] :
             sfx \in {".txt", ".PDF", ""}, ps \in [1..1 -> PageKinds] }

\* a few whole documents, for the programs that go on to ask questions
SamplePdfs ==
    { [name |-> PdfName, exists |-> TRUE, pages |-> ps] :
        ps \in { <<>>, <<TextPage>>, <<LongPage, ScanPage>>,
                 <<TextPage, BlankScan, LongPage>>, <<TextPage, BadScan>> } }
    \cup { [name |-> PdfName, exists |-> FALSE, pages |-> <<>>] }

\* Ingestor.__init__ defaults
DefaultChunkSize == 800
DefaultChunkOverlap == 150

\* chunk_size / chunk_overlap arguments; <<1, 2>> is the pair the splitter rejects
ChunkParams ==
    { [chunk_size |-> DefaultChunkSize, chunk_overlap |-> DefaultChunkOverlap],
      [chunk_size |-> 1, chunk_overlap |-> 0],
      [chunk_size |-> 2, chunk_overlap |-> 1],
      [chunk_size |-> 3, chunk_overlap |-> 3],
      [chunk_size |-> 1, chunk_overlap |-> 2] }

\* what an earlier program run may have left in the persist directory
StaleEntry ==
    [id |-> 0, page_content |-> <<"o", "l", "d">>,
     metadata |-> [source |-> [stem |-> "old", suffix |-> ".pdf"], page |-> 1, ocr |-> FALSE, chunk_id |-> 0]]

\* ------------------------------------------------------------------- state
VARIABLES
    file,            \* the file data/<file_name> on disk
    params,          \* the chunk_size and chunk_overlap given to Ingestor(...)
    built,           \* an Ingestor has been constructed in this process
    vector_store,    \* the Chroma collection "documents", in insertion order
    next_id,         \* the ids uuid4() has handed out so far
    ipc,             \* position of the running ingest_file call, "idle" if none
    page_index,      \* SmartPDFLoader.load: loop variable
    result_docs,     \* SmartPDFLoader.load: result_docs
    documents,       \* ingest_file: documents, after the enumerate loop
    ocr_calls,       \* convert_from_path calls of the current load, in order
    tess_calls,      \* pages pytesseract was run on in the current load
    result,          \* how the last ingest_file call on this Ingestor ended
    runs,            \* ingest_file calls started since the process began
    store_at_start,  \* the collection as the running ingest_file call found it
    added,           \* the entries add_documents wrote since the last Ingestor()
    chat,            \* the PdfChat object: whether it is built, and its prompt
    calls            \* per worker thread: the ask()/chat() call it is running

ingestVars == <<file, params, built, vector_store, next_id, ipc, page_index,
                result_docs, documents, ocr_calls, tess_calls, result, runs,
                store_at_start, added>>

chatVars == <<chat, calls>>

Workers == 1..MaxWorkers

\* how a call ends: it returns, or an exception leaves it at some stage
NoResult == [kind |-> "none", exc |-> "none", stage |-> "none"]
Returned == [kind |-> "returned", exc |-> "none", stage |-> "none"]
Raised(exc, stage) == [kind |-> "raised", exc |-> exc, stage |-> stage]

\* no PdfChat yet
NoChat == [built |-> FALSE, prompt_message |-> "none"]

NoPrompt == [template |-> "none", input |-> <<>>, context |-> <<>>]

\* a worker that runs no call
NoCall ==
    [pc |-> "Idle", via |-> "none", query |-> <<>>, input |-> <<>>, retrieved |-> <<>>,
     prompt |-> NoPrompt, n_queries |-> 0, n_llm |-> 0, out |-> "none"]

\* ------------------------------------------------------- Ingestor.__init__
\* a constructor that opens the persist directory without deleting it
KeepPersisted(persisted) == persisted

\* _instantiate_vector_store: rmtree of the persist directory when it exists,
\* then a Chroma collection over the directory, which is empty
InstantiateVectorStore(persisted) == <<>>

Construct ==
    /\ ipc = "idle"
    /\ \A t \in Workers : calls[t].pc \in {"Idle", "Closed"}
    /\ chat' = NoChat
    /\ calls' = [t \in Workers |-> NoCall]
    /\ built' = TRUE
    /\ vector_store' = InstantiateVectorStore(vector_store)
    /\ added' = <<>>
    /\ result' = NoResult
    /\ store_at_start' = <<>>
    /\ UNCHANGED <<file, params, next_id, ipc, page_index, result_docs, documents,
                   ocr_calls, tess_calls, runs>>

\* --------------------------------------------------- SmartPDFLoader.load
NativeDoc(name, page_num, text) ==
    [page_content |-> text,
     metadata |-> [source |-> name, page |-> page_num, ocr |-> FALSE]]

OcrDoc(name, page_num, text) ==
    [page_content |-> text,
     metadata |-> [source |-> name, page |-> page_num, ocr |-> TRUE]]

\* a rasterization of the document up to the page
RasterUpTo(page_num) == [first_page |-> 1, last_page |-> page_num]

\* the arguments _ocr_page gives convert_from_path
RasterRange(page_num) == [first_page |-> page_num, last_page |-> page_num]

\* a loader that tests and keeps the text as extracted, untrimmed
PageTextRaw(page) == page.native

\* the text load() tests and keeps for a page
PageText(page) == Strip(page.native)

\* the text _ocr_page keeps
OcrText(page) == Strip(page.ocr)

\* a loader without the existence check
FileNeverMissing(f) == FALSE

\* not pdf_path.exists()
FileMissing(f) == ~f.exists

\* load(): the existence check and fitz.open
LoadOpen ==
    /\ ipc = "load"
    /\ IF FileMissing(file)
       THEN /\ result' = Raised("FileNotFoundError", "extract")
            /\ ipc' = "idle"
            /\ UNCHANGED <<page_index, result_docs>>
       ELSE /\ page_index' = 0
            /\ result_docs' = <<>>
            /\ ipc' = "pages"
            /\ UNCHANGED result
    /\ ocr_calls' = <<>>
    /\ tess_calls' = <<>>
    /\ UNCHANGED <<file, params, built, vector_store, next_id, documents, runs,
                   store_at_start, added>>
    /\ UNCHANGED chatVars

\* one iteration of the page loop, _ocr_page included
LoadPage ==
    /\ ipc = "pages"
    /\ page_index < Len(file.pages)
    /\ LET page_num == page_index + 1
           page == file.pages[page_index + 1]
           text == PageText(page)
       IN  IF text # <<>>
           THEN /\ result_docs' = Append(result_docs, NativeDoc(file.name, page_num, text))
                /\ page_index' = page_index + 1
                /\ UNCHANGED <<ocr_calls, tess_calls, result, ipc>>
           ELSE /\ ocr_calls' = Append(ocr_calls, RasterRange(page_num))
                /\ IF page.images = 0
                   THEN /\ page_index' = page_index + 1
                        /\ UNCHANGED <<result_docs, tess_calls, result, ipc>>
                   ELSE /\ tess_calls' = Append(tess_calls, page_num)
                        /\ IF page.ocr_raises
                           THEN /\ result' = Raised("TesseractError", "extract")
                                /\ ipc' = "idle"
                                /\ UNCHANGED <<page_index, result_docs>>
                           ELSE /\ result_docs' =
                                      IF OcrText(page) # <<>>
                                      THEN Append(result_docs,
                                                  OcrDoc(file.name, page_num, OcrText(page)))
                                      ELSE result_docs
                                /\ page_index' = page_index + 1
                                /\ UNCHANGED <<result, ipc>>
    /\ UNCHANGED <<file, params, built, vector_store, next_id, documents, runs,
                   store_at_start, added>>
    /\ UNCHANGED chatVars

\* the loop is over: pdf.close() and return result_docs
LoadReturn ==
    /\ ipc = "pages"
    /\ page_index = Len(file.pages)
    /\ ipc' = "split"
    /\ UNCHANGED <<file, params, built, vector_store, next_id, page_index, result_docs,
                   documents, ocr_calls, tess_calls, result, runs, store_at_start, added>>
    /\ UNCHANGED chatVars


\* ---------------------------------------------------- Ingestor.ingest_file
\* an extension check that ignores case
SuffixOkAnyCase(name) == name.suffix \in {".pdf", ".PDF"}

\* self.file_path.suffix != '.pdf', negated
SuffixOk(name) == name.suffix = ".pdf"

\* the extension check, then SmartPDFLoader(str(self.file_path), lang="ita")
IngestStart ==
    /\ built
    /\ ipc = "idle"
    /\ runs < MaxRuns
    /\ runs' = runs + 1
    /\ store_at_start' = vector_store
    /\ IF ~SuffixOk(file.name)
       THEN /\ result' = Raised("ValueError", "validate")
            /\ UNCHANGED ipc
       ELSE /\ result' = NoResult
            /\ ipc' = "load"
    /\ UNCHANGED <<file, params, built, vector_store, next_id, page_index, result_docs,
                   documents, ocr_calls, tess_calls, added>>
    /\ UNCHANGED chatVars

\* RecursiveCharacterTextSplitter(chunk_size, chunk_overlap) rejects an overlap
\* larger than the chunk size
SplitterRejects(cs, co) == co > cs

\* split_documents: every page document is split on its own and every chunk
\* carries a copy of its page's metadata
RECURSIVE ChunksOf(_, _)
ChunksOf(texts, metadata) ==
    IF texts = <<>> THEN <<>>
    ELSE <<[page_content |-> Head(texts), metadata |-> metadata]>>
         \o ChunksOf(Tail(texts), metadata)

RECURSIVE SplitDocuments(_, _, _)
SplitDocuments(docs, cs, co) ==
    IF docs = <<>> THEN <<>>
    ELSE ChunksOf(SplitText(Head(docs).page_content, Separators, cs, co),
                  Head(docs).metadata)
         \o SplitDocuments(Tail(docs), cs, co)

\* a marker with the 0-based page index
PageMarkerZeroBased(page) ==
    <<"[", "P", "A", "G", "I", "N", "A", " ">> \o Digits(page - 1) \o <<"]", NL>>

\* f"[PAGINA {page}]\n"
PageMarker(page) ==
    <<"[", "P", "A", "G", "I", "N", "A", " ">> \o Digits(page) \o <<"]", NL>>

\* the body of the enumerate loop for the chunk at 0-based position idx; the
\* loader has set source, page and ocr, so both setdefault calls keep them
Annotate(doc, idx) ==
    [page_content |-> PageMarker(doc.metadata.page) \o doc.page_content,
     metadata |-> [source |-> doc.metadata.source,
                   page |-> doc.metadata.page,
                   ocr |-> doc.metadata.ocr,
                   chunk_id |-> idx]]

\* an enumerate that starts at 1
AnnotateAllFromOne(docs) == [i \in 1..Len(docs) |-> Annotate(docs[i], i)]

AnnotateAll(docs) == [i \in 1..Len(docs) |-> Annotate(docs[i], i - 1)]

\* lines 72-85: build the splitter, split, number and tag the chunks
SplitAndTag ==
    /\ ipc = "split"
    /\ IF SplitterRejects(params.chunk_size, params.chunk_overlap)
       THEN /\ result' = Raised("ValueError", "chunk")
            /\ ipc' = "idle"
            /\ UNCHANGED documents
       ELSE /\ documents' = AnnotateAll(SplitDocuments(result_docs, params.chunk_size,
                                                       params.chunk_overlap))
            /\ ipc' = "add"
            /\ UNCHANGED result
    /\ UNCHANGED <<file, params, built, vector_store, next_id, page_index, result_docs,
                   ocr_calls, tess_calls, runs, store_at_start, added>>
    /\ UNCHANGED chatVars

\* the entries add_documents writes: documents[i] under the i-th fresh uuid
NewEntries(docs, first_id) ==
    [i \in 1..Len(docs) |->
        [id |-> first_id + i, page_content |-> docs[i].page_content,
         metadata |-> docs[i].metadata]]

\* lines 88-91: uuid4 per chunk, then vector_store.add_documents, which embeds
\* every text before it writes any; the embedding model or the store may fail
AddDocuments ==
    /\ ipc = "add"
    /\ ipc' = "idle"
    /\ next_id' = next_id + Len(documents)
    /\ \/ /\ vector_store' = vector_store \o NewEntries(documents, next_id)
          /\ added' = added \o NewEntries(documents, next_id)
          /\ result' = Returned
       \/ /\ result' = Raised("IndexUnavailable", "index")
          /\ UNCHANGED <<vector_store, added>>
    /\ UNCHANGED <<file, params, built, page_index, result_docs, documents,
                   ocr_calls, tess_calls, runs, store_at_start>>
    /\ UNCHANGED chatVars



\* ------------------------------------------------------------------ PdfChat
\* search_kwargs={"k": 15}
K == 15

\* the embedding model, reduced to one number per text
Embed(text) == Cardinality({i \in 1..Len(text) : text[i] \in {"a", "b"}})

Distance(q, entry) ==
    LET d == Embed(q) - Embed(entry.page_content) IN IF d < 0 THEN -d ELSE d

\* similarity search: the k nearest entries, nearest first, equally near
\* entries in the store's own order
TopK(q, store, k) ==
    LET n == Len(store)
        Before(i, j) ==
            \/ Distance(q, store[i]) < Distance(q, store[j])
            \/ Distance(q, store[i]) = Distance(q, store[j]) /\ i < j
        Rank(i) == 1 + Cardinality({j \in 1..n : Before(j, i)})
        At(r) == CHOOSE i \in 1..n : Rank(i) = r
        m == IF n < k THEN n ELSE k
    IN  [r \in 1..m |-> store[At(r)]]

\* what the chat model may answer
Answers == {"found", "not_found"}

\* the messages _define_prompt keeps: the caller's, or the built-in ones
PromptMessage(given) == IF given = "none" THEN "default" ELSE given

PageContents(docs) == [i \in 1..Len(docs) |-> docs[i].page_content]

\* the stuff-documents chain: the template filled with the input and with the
\* retrieved texts joined by a blank line
Render(template, input, docs) ==
    [template |-> template, input |-> input,
     context |-> JoinWith(PageContents(docs), <<NL, NL>>)]

\* PdfChat(model, ingestor, prompt_message): _define_prompt and
\* _define_retrieval_chain over ingestor.vector_store
ChatInit(given) ==
    /\ built
    /\ ipc = "idle"
    /\ ~chat.built
    /\ chat' = [built |-> TRUE, prompt_message |-> PromptMessage(given)]
    /\ UNCHANGED calls
    /\ UNCHANGED ingestVars

\* str.lower() on the characters used here
LowerChar(c) == IF c = "Q" THEN "q" ELSE c
Lower(s) == [i \in 1..Len(s) |-> LowerChar(s[i])]

\* a chain input that carries the worker's previous question along
ChainInputWithHistory(previous, query) == previous.query \o query

\* the dictionary ask() gives the chain: {"input": query}
ChainInput(previous, query) == query

\* a call enters on worker t; via is "ask" for ask(query) and "chat" for a
\* turn of the console loop, which ends on the input "q"
CallStart(t, query, via) ==
    /\ calls[t].pc = "Idle"
    /\ calls' = [calls EXCEPT ![t] =
          IF via = "chat" /\ Lower(query) = <<"q">>
          THEN [NoCall EXCEPT !.pc = "Closed", !.via = via, !.query = query]
          ELSE [NoCall EXCEPT !.pc = IF via = "chat" THEN "Debug" ELSE "Retrieving",
                              !.via = via,
                              !.query = query,
                              !.input = ChainInput(calls[t], query)]]
    /\ UNCHANGED chat
    /\ UNCHANGED ingestVars

\* the call is over, with result["answer"] or with the exception of the step
\* that failed: its locals are gone, the counts of what it did stay
Return(call, queries, llm, out) ==
    [NoCall EXCEPT !.via = call.via, !.query = call.query,
                   !.n_queries = call.n_queries + queries,
                   !.n_llm = call.n_llm + llm, !.out = out]

\* chat(): docs = self.retriever.invoke(query), printed before the answer
ChatDebug(t) ==
    /\ calls[t].pc = "Debug"
    /\ \/ calls' = [calls EXCEPT ![t].pc = "Retrieving",
                                 ![t].n_queries = @ + 1]
       \/ calls' = [calls EXCEPT ![t] = Return(calls[t], 1, 0, "IndexUnavailable")]
    /\ UNCHANGED chat
    /\ UNCHANGED ingestVars

\* the retrieval chain, first step: the retriever on the chain's input
Retrieve(t) ==
    /\ calls[t].pc = "Retrieving"
    /\ \/ calls' = [calls EXCEPT ![t].pc = "Composing",
                                 ![t].n_queries = @ + 1,
                                 ![t].retrieved = TopK(calls[t].input, vector_store, K)]
       \/ calls' = [calls EXCEPT ![t] = Return(calls[t], 1, 0, "IndexUnavailable")]
    /\ UNCHANGED chat
    /\ UNCHANGED ingestVars

\* second step: the prompt from the template, the input and the documents
Compose(t) ==
    /\ calls[t].pc = "Composing"
    /\ calls' = [calls EXCEPT ![t].pc = "Generating",
                              ![t].prompt = Render(chat.prompt_message, calls[t].input,
                                                   calls[t].retrieved)]
    /\ UNCHANGED chat
    /\ UNCHANGED ingestVars

\* third step: the chat model on the prompt; result["answer"] is returned
Generate(t) ==
    /\ calls[t].pc = "Generating"
    /\ \/ \E a \in Answers :
             calls' = [calls EXCEPT ![t] = Return(calls[t], 0, 1, a)]
       \/ calls' = [calls EXCEPT ![t] = Return(calls[t], 0, 1, "GenerationUnavailable")]
    /\ UNCHANGED chat
    /\ UNCHANGED ingestVars

\* ------------------------------------------------------------ specification
Questions == {<<"a">>, <<"c", "d">>}
ConsoleInputs == Questions \cup {<<"Q">>}
PromptArguments == {"none", "custom"}

Init ==
    /\ file \in Files
    /\ params \in ChunkParams
    /\ built = FALSE
    /\ vector_store \in {<<>>, <<StaleEntry>>}
    /\ next_id = 0
    /\ ipc = "idle"
    /\ page_index = 0
    /\ result_docs = <<>>
    /\ documents = <<>>
    /\ ocr_calls = <<>>
    /\ tess_calls = <<>>
    /\ result = NoResult
    /\ runs = 0
    /\ store_at_start = <<>>
    /\ added = <<>>
    /\ chat = NoChat
    /\ calls = [t \in Workers |-> NoCall]

vars == <<file, params, built, vector_store, next_id, ipc, page_index, result_docs,
          documents, ocr_calls, tess_calls, result, runs, store_at_start, added,
          chat, calls>>

\* a program that constructs Ingestors and calls ingest_file
Next ==
    \/ Construct
    \/ IngestStart
    \/ LoadOpen
    \/ LoadPage
    \/ LoadReturn
    \/ SplitAndTag
    \/ AddDocuments

Spec == Init /\ [][Next]_vars

\* ------------------------------------------------- SmartPDFLoader on its own
\* SmartPDFLoader(path).load() called directly on any of the files
LoaderInit ==
    /\ Init
    /\ params = [chunk_size |-> DefaultChunkSize, chunk_overlap |-> DefaultChunkOverlap]
    /\ vector_store = <<>>

LoadCall ==
    /\ ~built
    /\ ipc = "idle"
    /\ result = NoResult
    /\ ipc' = "load"
    /\ UNCHANGED <<file, params, built, vector_store, next_id, page_index, result_docs,
                   documents, ocr_calls, tess_calls, result, runs, store_at_start, added>>
    /\ UNCHANGED chatVars

LoaderNext ==
    \/ LoadCall
    \/ LoadOpen
    \/ LoadPage
    \/ LoadReturn

LoaderSpec == LoaderInit /\ [][LoaderNext]_vars

\* ------------------------------------------- src/main.py, src/pdf_chat.py
\* a single-threaded program that ingests and then asks: ask(query) calls and
\* turns of the console loop, one call at a time
ConsoleInit ==
    /\ Init
    /\ file \in SamplePdfs

NewChat == \E given \in PromptArguments : ChatInit(given)
ConsoleIdle == ipc = "idle" /\ calls[1].pc \in {"Idle", "Closed"}
ConsoleIngest == ConsoleIdle /\ IngestStart
Ask == \E q \in Questions : ConsoleIdle /\ chat.built /\ CallStart(1, q, "ask")
ChatTurn == \E q \in ConsoleInputs : ConsoleIdle /\ chat.built /\ CallStart(1, q, "chat")
DebugStep == \E t \in Workers : ChatDebug(t)
RetrieveStep == \E t \in Workers : Retrieve(t)
ComposeStep == \E t \in Workers : Compose(t)
GenerateStep == \E t \in Workers : Generate(t)

ConsoleNext ==
    \/ Construct
    \/ ConsoleIngest
    \/ LoadOpen
    \/ LoadPage
    \/ LoadReturn
    \/ SplitAndTag
    \/ AddDocuments
    \/ NewChat
    \/ Ask
    \/ ChatTurn
    \/ DebugStep
    \/ RetrieveStep
    \/ ComposeStep
    \/ GenerateStep

ConsoleSpec == ConsoleInit /\ [][ConsoleNext]_vars

\* --------------------------------------------------- src/rag_server.py
\* The module body runs top to bottom when the server imports it: Ingestor(),
\* ingest_file(), PdfChat(); the app serves /chat once the import is over.
ServerInit ==
    /\ Init
    /\ file \in SamplePdfs
    /\ params = [chunk_size |-> DefaultChunkSize, chunk_overlap |-> DefaultChunkOverlap]

\* line 18: ingestion = Ingestor(...)
ServerConstruct == ~built /\ Construct

\* line 24: ingestion.ingest_file()
ServerIngest == runs = 0 /\ ~chat.built /\ IngestStart

\* line 27: chat = PdfChat(model=model_instance, ingestor=ingestion)
ServerChat == result = Returned /\ ChatInit("none")

\* an app that accepts requests while the module body is still running
EndpointAlwaysAvailable == TRUE

\* the import is over and the app accepts requests
EndpointAvailable == chat.built

\* lines 35-41: chat_endpoint on a worker thread
ChatEndpoint ==
    \E t \in Workers, q \in Questions : EndpointAvailable /\ CallStart(t, q, "ask")

ServerNext ==
    \/ ServerConstruct
    \/ ServerIngest
    \/ LoadOpen
    \/ LoadPage
    \/ LoadReturn
    \/ SplitAndTag
    \/ AddDocuments
    \/ ServerChat
    \/ ChatEndpoint
    \/ RetrieveStep
    \/ ComposeStep
    \/ GenerateStep

ServerSpec == ServerInit /\ [][ServerNext]_vars

\* ===================================================================== claims
\* text s begins with text p; s without its first Len(p) characters
HasPrefix(s, p) == Len(s) >= Len(p) /\ SubSeq(s, 1, Len(p)) = p
DropPrefix(s, p) == SubSeq(s, Len(p) + 1, Len(s))

\* the marker as the code's output reads: "[PAGINA <n>]\n" with n in decimal
PaginaMarker(page) ==
    <<"[", "P", "A", "G", "I", "N", "A", " ">> \o Digits(page) \o <<"]", NL>>

\* the documents of the store, without their ids
Stored(store) ==
    [i \in 1..Len(store) |->
        [page_content |-> store[i].page_content, metadata |-> store[i].metadata]]

\* an ingest_file call on the current Ingestor has returned and none is running
RunReturned == built /\ ipc = "idle" /\ result = Returned

\* the entries the run that just returned added to the store
RunEntries == SubSeq(vector_store, Len(store_at_start) + 1, Len(vector_store))

LoadReturned == ipc = "split"

\* the OCR text of a page: none when rasterization gave no image
ClaimedOcrText(page) == IF page.images = 0 THEN <<>> ELSE Strip(page.ocr)

DocsOfPage(n) == {i \in 1..Len(result_docs) : result_docs[i].metadata.page = n}

PageOrderOk ==
    \A i \in 1..Len(result_docs), j \in 1..Len(result_docs) :
        i < j => result_docs[i].metadata.page < result_docs[j].metadata.page

\* the page documents the claim describes, with the native text of a page given
\* by NativeText
DocsAsClaimed(NativeText(_)) ==
    /\ PageOrderOk
    /\ \A i \in 1..Len(result_docs) :
          /\ result_docs[i].metadata.page \in 1..Len(file.pages)
          /\ result_docs[i].metadata.source = file.name
    /\ \A n \in 1..Len(file.pages) :
          LET page == file.pages[n]
          IN  IF Strip(page.native) # <<>>
              THEN \E i \in 1..Len(result_docs) :
                      /\ DocsOfPage(n) = {i}
                      /\ result_docs[i].metadata.ocr = FALSE
                      /\ result_docs[i].page_content = NativeText(page)
              ELSE IF ClaimedOcrText(page) # <<>>
              THEN \E i \in 1..Len(result_docs) :
                      /\ DocsOfPage(n) = {i}
                      /\ result_docs[i].metadata.ocr = TRUE
                      /\ result_docs[i].page_content = ClaimedOcrText(page)
              ELSE DocsOfPage(n) = {}

AsExtracted(page) == page.native
Trimmed(page) == Strip(page.native)

\* C2 as claimed: load() returns the page documents in strictly increasing page
\* order, one with is_ocr=false and the page's native text for each page whose
\* trimmed native text is non-empty, one with is_ocr=true and the trimmed OCR
\* text for each page without native text whose trimmed OCR text is non-empty,
\* and none for a page where both are empty.
C2_NativeTextAsExtracted == LoadReturned => DocsAsClaimed(AsExtracted)

\* C2 amended: the same, with the text of a native page being the page's native
\* text trimmed of leading and trailing whitespace.
C2_NativeTextTrimmed == LoadReturned => DocsAsClaimed(Trimmed)

FlagsOf(docs) == [i \in 1..Len(docs) |-> docs[i].metadata.ocr]

\* the three-page document whose page 2 is a scan that OCR reads
C2_Witness ==
    /\ LoadReturned
    /\ Len(file.pages) = 3
    /\ Strip(file.pages[1].native) # <<>>
    /\ Strip(file.pages[2].native) = <<>>
    /\ Strip(file.pages[3].native) # <<>>
    /\ FlagsOf(result_docs) = <<FALSE, TRUE, FALSE>>

\* ------------------------------------------------------------------------ C3
EmptyNative(n) == Strip(file.pages[n].native) = <<>>

\* the pages the loop has been through: all of them once load() has returned,
\* and the page it stopped at when OCR raised
PagesVisited ==
    IF result.exc = "TesseractError" THEN 1..(page_index + 1) ELSE 1..page_index

RasterCallsOf(n) == {i \in 1..Len(ocr_calls) : ocr_calls[i].first_page = n}
TessCallsOf(n) == {i \in 1..Len(tess_calls) : tess_calls[i] = n}

\* C3: in one run of load(), every page whose trimmed native text is empty is
\* rasterized exactly once, by a call restricted to that page alone, and OCR is
\* run on its image once (not at all when rasterization returned no image); no
\* page with native text is rasterized or read by OCR.
C3_OcrOncePerEmptyPage ==
    ipc \in {"pages", "split"} \/ result.stage = "extract" =>
        /\ \A i \in 1..Len(ocr_calls) :
              /\ ocr_calls[i].first_page = ocr_calls[i].last_page
              /\ ocr_calls[i].first_page \in 1..Len(file.pages)
        /\ \A n \in 1..Len(file.pages) :
              IF n \in PagesVisited /\ EmptyNative(n)
              THEN /\ Cardinality(RasterCallsOf(n)) = 1
                   /\ Cardinality(TessCallsOf(n)) = file.pages[n].images
              ELSE RasterCallsOf(n) = {} /\ TessCallsOf(n) = {}
        /\ LoadReturned => PagesVisited = 1..Len(file.pages)

\* a load that returned after it sent two pages to OCR and kept a native page
C3_Witness ==
    /\ LoadReturned
    /\ Len(ocr_calls) = 2
    /\ \E i \in 1..Len(result_docs) : result_docs[i].metadata.ocr = FALSE
    /\ \E n \in 2..Len(file.pages) : EmptyNative(n) /\ ~EmptyNative(n - 1)

\* ------------------------------------------------------------------------ C4
BadExtension == file.name.suffix # ".pdf"

C4_State ==
    BadExtension =>
        /\ ipc = "idle"
        /\ result \in {NoResult, Raised("ValueError", "validate")}
        /\ page_index = 0 /\ result_docs = <<>> /\ documents = <<>>
        /\ ocr_calls = <<>> /\ tess_calls = <<>>
        /\ built => vector_store = <<>>

C4_Call ==
    BadExtension /\ runs' = runs + 1 =>
        /\ result' = Raised("ValueError", "validate")
        /\ vector_store' = vector_store
        /\ ipc' = "idle"

\* C4: ingest_file on a file whose extension is not ".pdf" raises the extension
\* error at once, whether or not the file exists; the loader is never entered,
\* no page is read, and the index is what it was before the call.
C4_BadExtensionRejected == []C4_State /\ [][C4_Call]_vars

\* the extension error for a file that does not exist either
C4_Witness ==
    /\ BadExtension
    /\ ~file.exists
    /\ runs = 2
    /\ result = Raised("ValueError", "validate")

\* ------------------------------------------------------------------------ C5
NeedsFailingOcr(n) ==
    /\ Strip(file.pages[n].native) = <<>>
    /\ file.pages[n].images > 0
    /\ file.pages[n].ocr_raises

\* the first stage of a run on this file with these parameters that fails
\* before indexing, and its exception
FirstFailure ==
    IF file.name.suffix # ".pdf" THEN Raised("ValueError", "validate")
    ELSE IF ~file.exists THEN Raised("FileNotFoundError", "extract")
    ELSE IF \E n \in 1..Len(file.pages) : NeedsFailingOcr(n)
         THEN Raised("TesseractError", "extract")
    ELSE IF params.chunk_overlap > params.chunk_size THEN Raised("ValueError", "chunk")
    ELSE NoResult

FirstFailingPage == CHOOSE n \in 1..Len(file.pages) :
    NeedsFailingOcr(n) /\ \A m \in 1..(n - 1) : ~NeedsFailingOcr(m)

\* C5: when a stage of an ingest_file run fails, the call ends there with that
\* stage's exception: a missing file gives FileNotFoundError, an OCR error on a
\* page gives that error and no later page is processed, a rejected overlap
\* gives the splitter's error; no later stage runs, nothing is retried, a run
\* that must fail never returns normally, and the index is what it was when
\* the run started.
C5_FailureSurfaced ==
    /\ result.kind = "raised" => ipc = "idle"
    /\ result.kind = "raised" /\ result.stage # "index" =>
          /\ result = FirstFailure
          /\ vector_store = store_at_start
    /\ result.exc = "TesseractError" =>
          /\ page_index = FirstFailingPage - 1
          /\ \A i \in 1..Len(ocr_calls) : ocr_calls[i].first_page <= FirstFailingPage
    /\ FirstFailure # NoResult =>
          /\ result # Returned
          /\ ipc \notin {"add"}
          /\ FirstFailure.stage \in {"validate"} => ipc = "idle"
          /\ FirstFailure.exc = "FileNotFoundError" => ipc \in {"idle", "load"}
          /\ FirstFailure.stage = "extract" => ipc \in {"idle", "load", "pages"}
          /\ built => vector_store = <<>>

\* OCR raised on a later page of a document whose earlier pages had been read
C5_Witness ==
    /\ result = Raised("TesseractError", "extract")
    /\ page_index >= 1
    /\ result_docs # <<>>
    /\ ipc = "idle"

\* ------------------------------------------------------------------------ C6
\* the chunks the splitter emits for the page documents of the run, in order
SplitterOutput == SplitDocuments(result_docs, params.chunk_size, params.chunk_overlap)

\* C6: after a run, the chunk_id values of the chunks it added to the index are
\* 0, 1, ..., n-1 in the order the splitter emitted the chunks, whatever the
\* index held before.
C6_ChunkIdsContiguous ==
    RunReturned =>
        /\ Len(RunEntries) = Len(SplitterOutput)
        /\ \A i \in 1..Len(RunEntries) :
              /\ RunEntries[i].metadata.chunk_id = i - 1
              /\ RunEntries[i].metadata.page = SplitterOutput[i].metadata.page
              /\ DropPrefix(RunEntries[i].page_content,
                            PaginaMarker(RunEntries[i].metadata.page))
                    = SplitterOutput[i].page_content

\* a second run that added several chunks on top of the first run's
C6_Witness ==
    /\ RunReturned
    /\ runs = 2
    /\ store_at_start # <<>>
    /\ Len(RunEntries) >= 3

\* ------------------------------------------------------------------------ C7
OverlapBelowSize == params.chunk_overlap < params.chunk_size

\* C7 as claimed: with chunk_overlap < chunk_size, every chunk stored in the
\* index has a text of at most chunk_size characters.
C7_StoredWithinChunkSize ==
    built /\ OverlapBelowSize =>
        \A i \in 1..Len(vector_store) :
            Len(vector_store[i].page_content) <= params.chunk_size

\* C7 amended: with chunk_overlap < chunk_size, every chunk stored in the index
\* is a page marker followed by at most chunk_size characters: the bound holds
\* for the splitter's chunk, and the stored text is longer by the marker.
C7_SplitWithinChunkSize ==
    built /\ OverlapBelowSize =>
        \A i \in 1..Len(vector_store) :
            LET marker == PaginaMarker(vector_store[i].metadata.page)
            IN  /\ HasPrefix(vector_store[i].page_content, marker)
                /\ Len(vector_store[i].page_content) <= Len(marker) + params.chunk_size

\* a page longer than chunk_size was split, and a stored chunk fills the size
C7_Witness ==
    /\ RunReturned
    /\ OverlapBelowSize
    /\ \E i \in 1..Len(result_docs) : Len(result_docs[i].page_content) > params.chunk_size
    /\ \E i \in 1..Len(vector_store) :
          Len(vector_store[i].page_content)
             = Len(PaginaMarker(vector_store[i].metadata.page)) + params.chunk_size

\* ------------------------------------------------------------------------ C8
\* the marker as the claim writes it
ClaimedMarker(page) ==
    <<"[", "P", "A", "G", "E", " ">> \o Digits(page) \o <<"]", NL>>

ChunksOfText(text) == SplitText(text, Separators, params.chunk_size, params.chunk_overlap)

\* the stored chunk is the marker of its own page, then one of the splitter's
\* chunks of the one page document with that page number, whose source and OCR
\* flag it carries
TaggedFromItsPage(entry, Marker(_)) ==
    LET from == {i \in 1..Len(result_docs) :
                    result_docs[i].metadata.page = entry.metadata.page}
    IN  /\ Cardinality(from) = 1
        /\ HasPrefix(entry.page_content, Marker(entry.metadata.page))
        /\ \A i \in from :
              /\ entry.metadata.source = result_docs[i].metadata.source
              /\ entry.metadata.ocr = result_docs[i].metadata.ocr
              /\ \E k \in 1..Len(ChunksOfText(result_docs[i].page_content)) :
                    DropPrefix(entry.page_content, Marker(entry.metadata.page))
                       = ChunksOfText(result_docs[i].page_content)[k]

\* C8 as claimed: every stored chunk begins with "[PAGE <n>]\n", n its own
\* page_number, followed by the splitter's chunk text, and has the source,
\* page_number and is_ocr of the page document it was split from.
C8_TaggedWithPage ==
    RunReturned => \A i \in 1..Len(RunEntries) : TaggedFromItsPage(RunEntries[i], ClaimedMarker)

\* C8 amended: the marker is "[PAGINA <n>]\n".
C8_TaggedWithPagina ==
    RunReturned => \A i \in 1..Len(RunEntries) : TaggedFromItsPage(RunEntries[i], PaginaMarker)

\* a run stored a chunk read by OCR from page 2 and a chunk of native text
C8_Witness ==
    /\ RunReturned
    /\ \E i \in 1..Len(RunEntries) :
          RunEntries[i].metadata.ocr /\ RunEntries[i].metadata.page = 2
    /\ \E i \in 1..Len(RunEntries) : ~RunEntries[i].metadata.ocr

\* ------------------------------------------------------------------------ C9
AskStates == {"Idle", "Retrieving", "Composing", "Generating"}

\* the steps of an ask() call: the four of a call that answers, and the two
\* that leave early with the exception of the index or of the chat model
AskEdges ==
    { <<"Idle", "Retrieving">>, <<"Retrieving", "Composing">>,
      <<"Composing", "Generating">>, <<"Generating", "Idle">>,
      <<"Retrieving", "Idle">> }

C9_State ==
    \A t \in Workers :
        calls[t].via = "ask" =>
            /\ calls[t].pc \in AskStates
            /\ calls[t].pc = "Retrieving" =>
                  calls[t].n_queries = 0 /\ calls[t].n_llm = 0
            /\ calls[t].pc \in {"Composing", "Generating"} =>
                  /\ calls[t].n_queries = 1 /\ calls[t].n_llm = 0
                  /\ calls[t].retrieved = TopK(calls[t].query, vector_store, K)
                  /\ Len(calls[t].retrieved) <= K
            /\ calls[t].pc = "Generating" =>
                  calls[t].prompt =
                      Render(chat.prompt_message, calls[t].query,
                             TopK(calls[t].query, vector_store, K))
            /\ calls[t].pc = "Idle" /\ calls[t].out \in Answers =>
                  calls[t].n_queries = 1 /\ calls[t].n_llm = 1
            /\ calls[t].pc = "Idle" /\ calls[t].out = "GenerationUnavailable" =>
                  calls[t].n_queries = 1 /\ calls[t].n_llm = 1
            /\ calls[t].pc = "Idle" /\ calls[t].out = "IndexUnavailable" =>
                  calls[t].n_queries = 1 /\ calls[t].n_llm = 0

C9_Step ==
    \A t \in Workers :
        calls'[t].via = "ask" /\ calls'[t] # calls[t] =>
            /\ <<calls[t].pc, calls'[t].pc>> \in AskEdges
            /\ vector_store' = vector_store
            /\ chat' = chat
            /\ calls[t].pc # "Idle" => calls'[t].query = calls[t].query

\* C9: an ask(question) call goes Idle, Retrieving, Composing, Generating, Idle
\* with one query of the index for the K = 15 nearest chunks and then one call
\* of the chat model; it changes neither the index nor the prompt template; the
\* chunks it retrieves and the prompt it composes are those of this question
\* and of the index as it is, whatever was asked before.
C9_AskIsStateless == []C9_State /\ [][C9_Step]_vars

\* a later ask() on an index of more than K chunks, whose nearest chunk is not
\* the first one stored
C9_Witness ==
    /\ calls[1].via = "ask"
    /\ calls[1].pc = "Generating"
    /\ Len(vector_store) > K
    /\ Len(calls[1].retrieved) = K
    /\ calls[1].retrieved[1] # vector_store[1]

\* ----------------------------------------------------------------------- C10
Asked(t) == calls[t] # NoCall

\* C10: in the HTTP front end ingest_file runs once, while the module is
\* imported, and has returned before /chat serves a question: whenever a
\* request has been taken, the one run is over, and none starts afterwards.
C10_IngestBeforeServing ==
    /\ runs <= 1
    /\ ipc # "idle" => runs = 1 /\ ~chat.built
    /\ chat.built => runs = 1 /\ ipc = "idle" /\ result = Returned
    /\ \A t \in Workers :
          Asked(t) => runs = 1 /\ ipc = "idle" /\ result = Returned /\ chat.built

\* two requests in flight at once, after the ingestion
C10_Witness ==
    /\ calls[1].pc = "Generating"
    /\ calls[2].pc = "Retrieving"
    /\ runs = 1
    /\ vector_store # <<>>

====
